---- MODULE Spec2Model ----
(***************************************************************************)
(* Model of pyravendb/d_commands/raven_commands.py: the RavenCommand       *)
(* family.  One instance (`command`) is alive at a time; a caller         *)
(* constructs it, the transport calls create_request(server_node) and,     *)
(* once a request was built, set_response(response).  create_request may   *)
(* run again on the same instance (a retry against another node).          *)
(*                                                                         *)
(* Python values are tagged records: [t |-> "none"], [t |-> "str", ...],   *)
(* [t |-> "list", v |-> <<...>>], [t |-> "dict", v |-> [key |-> value]].   *)
(* A string is its leading characters `s` followed by `pad` copies of the  *)
(* filler character "x", so that strings longer than 1024 characters stay  *)
(* small values.                                                           *)
(***************************************************************************)
EXTENDS Integers, Sequences, FiniteSets, TLC

VARIABLES command, last

vars == <<command, last>>

(***************************************************************************)
(* Bounds of the model.                                                    *)
(***************************************************************************)
MaxKeys == 3
MaxQueryLen == 3
MaxBatch == 2
MaxIndexes == 2

(***************************************************************************)
(* Python values.                                                          *)
(***************************************************************************)
None == [t |-> "none"]

Str(s, pad) == [t |-> "str", s |-> s, pad |-> pad]

List(v) == [t |-> "list", v |-> v]

Dict(v) == [t |-> "dict", v |-> v]

PyInt(n) == [t |-> "int", v |-> n]

EmptyDict == <<>>

IsNone(x) == x.t = "none"

IsStr(x) == x.t = "str"

IsList(x) == x.t = "list"

IsDict(x) == x.t = "dict"

\* len(x) of a str or a list
len(x) == IF x.t = "str" THEN Len(x.s) + x.pad ELSE Len(x.v)

\* Python truth value of x
Truthy(x) ==
    CASE x.t = "none" -> FALSE
      [] x.t = "str" -> len(x) > 0
      [] x.t = "list" -> Len(x.v) > 0
      [] x.t = "dict" -> DOMAIN x.v # {}
      [] x.t = "int" -> x.v # 0
      [] x.t = "bool" -> x.v
      [] OTHER -> TRUE

\* `"If-Match": "\"{0}\"".format(etag)`: the etag between double quotes
QuotedEtag(etag) == [t |-> "quoted", v |-> etag]

(***************************************************************************)
(* Utils.quote_key: percent-encoding of a key.  Characters outside the     *)
(* unreserved set become "%XX"; here " " becomes "%20" and "%" "%25".      *)
(***************************************************************************)
RECURSIVE quote(_)
quote(s) ==
    IF s = <<>> THEN <<>>
    ELSE (CASE Head(s) = " " -> <<"%", "2", "0">>
            [] Head(s) = "%" -> <<"%", "2", "5">>
            [] OTHER -> <<Head(s)>>) \o quote(Tail(s))

quote_key(key, reserved_slash) ==
    IF Truthy(key) THEN Str(quote(key.s), key.pad) ELSE Str(<<>>, 0)

(***************************************************************************)
(* ServerNode and the urls built from it.  A path is the sequence of its   *)
(* pieces, each a literal followed by a formatted value.                   *)
(***************************************************************************)
Nodes ==
    { [url |-> "http://a:8080", database |-> "db1"],
      [url |-> "http://b:8080", database |-> "db2"] }

Piece(p, v) == [p |-> p, v |-> v]

Lit(p) == [p |-> p, v |-> Str(<<>>, 0)]

\* "{0}/databases/{1}/{2}".format(server_node.url, server_node.database, path)
DatabaseUrl(server_node, path) ==
    [t |-> "url", base |-> server_node.url, area |-> "databases",
     database |-> server_node.database, path |-> path]

\* "{0}/admin/databases?name={1}".format(server_node.url, ...)
AdminUrl(server_node, path) ==
    [t |-> "url", base |-> server_node.url, area |-> "admin",
     database |-> "", path |-> path]

(***************************************************************************)
(* RavenCommand.__init__                                                   *)
(***************************************************************************)
RavenCommand(kind, method, is_read_request) ==
    [kind |-> kind, url |-> None, method |-> method, data |-> None,
     headers |-> EmptyDict, is_read_request |-> is_read_request,
     failed_nodes |-> {}, authentication_retries |-> 0,
     avoid_failover |-> FALSE]

NoCommand == [kind |-> "none"]

\* RavenCommand.is_failed_with_node
is_failed_with_node(self, node) ==
    Cardinality(self.failed_nodes) > 0 /\ node \in self.failed_nodes

\* The outcome of a call: the instance after it, the exception class that
\* escaped ("none" when the call returned) and the value returned.
Return(self, v) == [self |-> self, exc |-> "none", ret |-> v]

Raise(self, e) == [self |-> self, exc |-> e, ret |-> None]

Called(op, arg, r) == [op |-> op, arg |-> arg, exc |-> r.exc, ret |-> r.ret]

\* The record of a constructor that returned an instance
Constructed == [op |-> "__init__", arg |-> None, exc |-> "none", ret |-> None]

\* `except ValueError`: the exception classes the clause catches
IsValueError(e) == e = "ValueError"

(***************************************************************************)
(* Responses handed over by the transport: None, or a status code with a   *)
(* body that either parses as a JSON object or does not parse.             *)
(***************************************************************************)
StatusCodes == {200, 201, 202, 204, 400}

JsonValue(k) ==
    CASE k = "Error" -> "server error"
      [] k = "ActualEtag" -> "etag-2"
      [] k = "Results" -> <<"r1", "r2">>
      [] k = "Message" -> "message"

JsonBodies ==
    { Dict([k \in ks |-> JsonValue(k)]) :
        ks \in (SUBSET {"Error", "ActualEtag", "Results"}) \cup {{"Message"}} }

Bodies == JsonBodies \cup {[t |-> "text"]}

Responses ==
    {None} \cup
    { [t |-> "response", status_code |-> c, body |-> b] :
        c \in StatusCodes, b \in Bodies }

\* response.json(): the parsed body, or ValueError when it does not parse
json(response) ==
    IF response.body.t = "dict"
    THEN [exc |-> "none", v |-> response.body]
    ELSE [exc |-> "ValueError", v |-> None]

(***************************************************************************)
(* GetDocumentCommand                                                      *)
(***************************************************************************)
MaxUrlIdsLength == 1024

GetDocumentCommand(key_or_keys, includes, metadata_only) ==
    RavenCommand("GetDocument", "GET", TRUE) @@
    [key_or_keys |-> key_or_keys, includes |-> includes,
     metadata_only |-> metadata_only, force_read_from_master |-> FALSE]

\* collections.OrderedDict.fromkeys(keys): a key is inserted when it is met
\* for the first time, and iteration follows insertion order
RECURSIVE fromkeys_into(_, _)
fromkeys_into(acc, keys) ==
    IF keys = <<>> THEN acc
    ELSE fromkeys_into(
             IF \E i \in 1..Len(acc) : acc[i] = Head(keys)
             THEN acc ELSE Append(acc, Head(keys)),
             Tail(keys))

\* Mutation of fromkeys: every occurrence is kept.
fromkeys_keep_all(keys) == keys

fromkeys(keys) == fromkeys_into(<<>>, keys)

\* sum(len(x) for x in keys)
RECURSIVE sum_len(_)
sum_len(keys) ==
    IF keys = <<>> THEN 0 ELSE len(Head(keys)) + sum_len(Tail(keys))

\* "".join(prefix + Utils.quote_key(item) for item in items)
join_quoted(prefix, items) ==
    [i \in 1..Len(items) |-> Piece(prefix, quote_key(items[i], FALSE))]

\* Mutation of GetDocument_exceeds: the limit itself already switches to POST.
GetDocument_exceeds_from_limit(keys) == sum_len(keys) >= MaxUrlIdsLength

GetDocument_exceeds(keys) == sum_len(keys) > MaxUrlIdsLength

GetDocument_create_request(self, server_node) ==
    IF IsNone(self.key_or_keys) THEN Raise(self, "ValueError")
    ELSE
    LET path0 == <<Lit("docs?")>> \o
                 (IF Truthy(self.includes)
                  THEN join_quoted("&include=", self.includes.v) ELSE <<>>)
    IN  IF IsList(self.key_or_keys)
        THEN LET key_or_keys == fromkeys(self.key_or_keys.v)
                 path1 == path0 \o
                          (IF self.metadata_only
                           THEN <<Lit("&metadata-only=True")>> ELSE <<>>)
             IN  IF GetDocument_exceeds(key_or_keys)
                 THEN Return([self EXCEPT !.method = "POST",
                                          !.data = List(key_or_keys),
                                          !.url = DatabaseUrl(server_node, path1)],
                             None)
                 ELSE Return([self EXCEPT
                                !.url = DatabaseUrl(server_node,
                                            path1 \o join_quoted("&id=", key_or_keys))],
                             None)
        ELSE Return([self EXCEPT
                       !.url = DatabaseUrl(server_node,
                                   path0 \o <<Piece("&id=", quote_key(self.key_or_keys, FALSE))>>)],
                    None)

\* Inputs: keys of length 1, 512 and 512, so that lists of them sum to
\* exactly 1024, to more and to less, with and without duplicates.
KeyBlank == Str(<<" ">>, 0)

KeyLong == Str(<<>>, MaxUrlIdsLength \div 2)

KeyLongA == Str(<<"a">>, (MaxUrlIdsLength \div 2) - 1)

Keys == {KeyBlank, KeyLong, KeyLongA}

RECURSIVE SeqsUpTo(_, _)
SeqsUpTo(S, n) ==
    IF n = 0 THEN {<<>>}
    ELSE LET shorter == SeqsUpTo(S, n - 1)
         IN  shorter \cup {Append(q, x) : q \in shorter, x \in S}

KeyLists == {List(q) : q \in SeqsUpTo(Keys, MaxKeys)}

NewGetDocument ==
    /\ command = NoCommand
    /\ \E key_or_keys \in {None} \cup Keys \cup KeyLists,
          includes \in {None, List(<<KeyBlank>>)},
          metadata_only \in BOOLEAN :
        /\ command' = GetDocumentCommand(key_or_keys, includes, metadata_only)
        /\ last' = Constructed

GetDocumentCreateRequest ==
    /\ command.kind = "GetDocument"
    /\ \E server_node \in Nodes :
        LET r == GetDocument_create_request(command, server_node)
        IN  /\ command' = r.self
            /\ last' = Called("create_request", server_node, r)

\* The transport records the node of the request it built as failed, before
\* it retries the command against another node.
RecordFailedNode ==
    /\ command.kind # "none"
    /\ last.op = "create_request"
    /\ last.exc = "none"
    /\ ~is_failed_with_node(command, last.arg)
    /\ command' = [command EXCEPT !.failed_nodes = @ \cup {last.arg}]
    /\ UNCHANGED last

(***************************************************************************)
(* DeleteDocumentCommand                                                   *)
(***************************************************************************)
\* log = logging.basicConfig(filename='responses.log', level=logging.DEBUG):
\* basicConfig returns None, so the module-level `log` is None
log == None

\* log.info(...) / log.debug(...): an attribute lookup on `log`
log_call == IF IsNone(log) THEN "AttributeError" ELSE "none"

DeleteDocumentCommand(key, etag) ==
    RavenCommand("DeleteDocument", "DELETE", FALSE) @@
    [key |-> key, etag |-> etag]

DeleteDocument_create_request(self, server_node) ==
    IF IsNone(self.key) THEN Raise(self, "ValueError")
    ELSE IF ~IsStr(self.key) THEN Raise(self, "ValueError")
    ELSE LET h == IF ~IsNone(self.etag)
                  THEN "If-Match" :> QuotedEtag(self.etag)
                  ELSE self.headers
         IN  Return([self EXCEPT
                       !.headers = h,
                       !.url = DatabaseUrl(server_node,
                                   <<Piece("docs?id=", quote_key(self.key, FALSE))>>)],
                    None)

DeleteDocument_set_response(self, response) ==
    IF IsNone(response)
    THEN IF log_call # "none" THEN Raise(self, log_call) ELSE Return(self, None)
    ELSE IF response.status_code # 204
    THEN LET parsed == json(response)
         IN  IF parsed.exc # "none" THEN Raise(self, parsed.exc)
             ELSE IF "Error" \notin DOMAIN parsed.v.v THEN Raise(self, "KeyError")
             ELSE Raise(self, "ErrorResponseException")
    ELSE Return(self, None)

KeyA == Str(<<"a">>, 0)

Etags == {None, Str(<<"e">>, 0)}

NewDeleteDocument ==
    /\ command = NoCommand
    /\ \E key \in {None, KeyA, KeyBlank, PyInt(7)}, etag \in Etags :
        /\ command' = DeleteDocumentCommand(key, etag)
        /\ last' = Constructed

DeleteDocumentCreateRequest ==
    /\ command.kind = "DeleteDocument"
    /\ \E server_node \in Nodes :
        LET r == DeleteDocument_create_request(command, server_node)
        IN  /\ command' = r.self
            /\ last' = Called("create_request", server_node, r)

\* The transport hands the response over once a request was built.
RequestBuilt == last.op = "create_request" /\ last.exc = "none"

DeleteDocumentSetResponse ==
    /\ command.kind = "DeleteDocument"
    /\ RequestBuilt
    /\ \E response \in Responses :
        LET r == DeleteDocument_set_response(command, response)
        IN  /\ command' = r.self
            /\ last' = Called("set_response", response, r)

(***************************************************************************)
(* PutDocumentCommand                                                      *)
(***************************************************************************)
PutDocumentCommand(key, document, etag) ==
    RavenCommand("PutDocument", "PUT", FALSE) @@
    [key |-> key, document |-> document, etag |-> etag]

\* "\"{etag}\"".format(value): the replacement field is named `etag`, the
\* value is passed by position, so the lookup of the name raises KeyError
format_etag_field(value, kwargs) ==
    IF "etag" \in DOMAIN kwargs
    THEN [exc |-> "none", v |-> QuotedEtag(kwargs["etag"])]
    ELSE [exc |-> "KeyError", v |-> None]

PutDocument_create_request(self, server_node) ==
    LET self1 == IF IsNone(self.document)
                 THEN [self EXCEPT !.document = Dict(EmptyDict)] ELSE self
        f == format_etag_field(self1.etag, EmptyDict)
    IN  IF ~IsNone(self1.etag) /\ f.exc # "none" THEN Raise(self1, f.exc)
        ELSE LET self2 == IF ~IsNone(self1.etag)
                          THEN [self1 EXCEPT !.headers = "If-Match" :> f.v]
                          ELSE self1
             IN  IF ~IsStr(self2.key) THEN Raise(self2, "ValueError")
                 ELSE IF ~IsDict(self2.document) THEN Raise(self2, "ValueError")
                 ELSE Return([self2 EXCEPT
                                !.data = self2.document,
                                !.url = DatabaseUrl(server_node,
                                            <<Piece("docs?id=", self2.key)>>)],
                             None)

\* Mutation of PutDocument_set_response: "ActualEtag" is not looked at.
PutDocument_set_response_no_etag(self, response) ==
    IF IsNone(response) THEN Raise(self, "AttributeError")
    ELSE
    LET parsed == json(response)
    IN  IF parsed.exc # "none" THEN Raise(self, "ErrorResponseException")
        ELSE IF "Error" \in DOMAIN parsed.v.v
             THEN Raise(self, "ErrorResponseException")
             ELSE Return(self, parsed.v)

PutDocument_set_response(self, response) ==
    IF IsNone(response) THEN Raise(self, "AttributeError")
    ELSE
    LET parsed == json(response)
        raised == IF parsed.exc # "none" THEN parsed.exc
                  ELSE IF "Error" \in DOMAIN parsed.v.v
                       THEN IF "ActualEtag" \in DOMAIN parsed.v.v
                            THEN "FetchConcurrencyException"
                            ELSE "ErrorResponseException"
                       ELSE "none"
    IN  IF raised = "none" THEN Return(self, parsed.v)
        ELSE IF IsValueError(raised) THEN Raise(self, "ErrorResponseException")
        ELSE Raise(self, raised)

Document == Dict([Name |-> "doc"])

NewPutDocument ==
    /\ command = NoCommand
    /\ \E key \in {None, KeyA, KeyBlank, PyInt(7)},
          document \in {None, Document, KeyA},
          etag \in Etags :
        /\ command' = PutDocumentCommand(key, document, etag)
        /\ last' = Constructed

PutDocumentCreateRequest ==
    /\ command.kind = "PutDocument"
    /\ \E server_node \in Nodes :
        LET r == PutDocument_create_request(command, server_node)
        IN  /\ command' = r.self
            /\ last' = Called("create_request", server_node, r)

PutDocumentSetResponse ==
    /\ command.kind = "PutDocument"
    /\ RequestBuilt
    /\ \E response \in Responses :
        LET r == PutDocument_set_response(command, response)
        IN  /\ command' = r.self
            /\ last' = Called("set_response", response, r)

(***************************************************************************)
(* BatchCommand                                                            *)
(***************************************************************************)
BatchCommand(commands_array) ==
    RavenCommand("Batch", "POST", FALSE) @@ [commands_array |-> commands_array]

\* A sub-command of pyravendb.data.commands_data: it carries a `command`
\* attribute and serializes itself with to_json().
CommandData(key, method) ==
    [t |-> "commanddata", key |-> key, method |-> method]

\* hasattr(c, 'command')
hasattr_command(c) == c.t = "commanddata"

\* c.to_json() of a sub-command
CommandData_to_json(c) == Dict([Key |-> c.key, Method |-> c.method])

\* Mutation of Batch_collect: each serialized sub-command is put in front.
RECURSIVE Batch_collect_front(_, _)
Batch_collect_front(data, commands) ==
    IF commands = <<>> THEN [exc |-> "none", v |-> data]
    ELSE IF ~hasattr_command(Head(commands))
         THEN [exc |-> "ValueError", v |-> data]
         ELSE Batch_collect_front(<<CommandData_to_json(Head(commands))>> \o data,
                                  Tail(commands))

\* The loop of BatchCommand.create_request over the sub-commands left to
\* visit: the list built, or ValueError at the first one without `command`.
RECURSIVE Batch_collect(_, _)
Batch_collect(data, commands) ==
    IF commands = <<>> THEN [exc |-> "none", v |-> data]
    ELSE IF ~hasattr_command(Head(commands))
         THEN [exc |-> "ValueError", v |-> data]
         ELSE Batch_collect(Append(data, CommandData_to_json(Head(commands))),
                            Tail(commands))

\* Mutation of Batch_create_request: the list is built in self.data itself.
Batch_create_request_in_place(self, server_node) ==
    LET c == Batch_collect(<<>>, self.commands_array)
    IN  IF c.exc # "none" THEN Raise([self EXCEPT !.data = List(c.v)], c.exc)
        ELSE Return([self EXCEPT
                       !.url = DatabaseUrl(server_node, <<Lit("bulk_docs")>>),
                       !.data = List(c.v)],
                    None)

Batch_create_request(self, server_node) ==
    LET c == Batch_collect(<<>>, self.commands_array)
    IN  IF c.exc # "none" THEN Raise(self, c.exc)
        ELSE Return([self EXCEPT
                       !.url = DatabaseUrl(server_node, <<Lit("bulk_docs")>>),
                       !.data = List(c.v)],
                    None)

Batch_set_response(self, response) ==
    IF IsNone(response) THEN Raise(self, "AttributeError")
    ELSE
    LET parsed == json(response)
        raised == IF parsed.exc # "none" THEN parsed.exc
                  ELSE IF "Error" \in DOMAIN parsed.v.v THEN "ValueError"
                  ELSE IF "Results" \notin DOMAIN parsed.v.v THEN "KeyError"
                  ELSE "none"
    IN  IF raised = "none" THEN Return(self, List(parsed.v.v["Results"]))
        ELSE IF IsValueError(raised) THEN Raise(self, "InvalidOperationException")
        ELSE Raise(self, raised)

SubCommands ==
    { CommandData(KeyA, "PUT"), CommandData(KeyA, "DELETE"),
      CommandData(KeyBlank, "PUT"), [t |-> "object"] }

NewBatch ==
    /\ command = NoCommand
    /\ \E commands_array \in SeqsUpTo(SubCommands, MaxBatch) :
        /\ command' = BatchCommand(commands_array)
        /\ last' = Constructed

BatchCreateRequest ==
    /\ command.kind = "Batch"
    /\ \E server_node \in Nodes :
        LET r == Batch_create_request(command, server_node)
        IN  /\ command' = r.self
            /\ last' = Called("create_request", server_node, r)

BatchSetResponse ==
    /\ command.kind = "Batch"
    /\ RequestBuilt
    /\ \E response \in Responses :
        LET r == Batch_set_response(command, response)
        IN  /\ command' = r.self
            /\ last' = Called("set_response", response, r)

(***************************************************************************)
(* PutIndexesCommand, GetIndexCommand, DeleteIndexCommand                  *)
(***************************************************************************)
IndexDefinition(name) == [t |-> "IndexDefinition", name |-> name]

\* index_definition.to_json()
IndexDefinition_to_json(d) == Dict([Name |-> d.name])

\* The loop of PutIndexesCommand.__init__ over the definitions left.
RECURSIVE PutIndexes_collect(_, _)
PutIndexes_collect(acc, indexes) ==
    IF indexes = <<>> THEN [exc |-> "none", v |-> acc]
    ELSE IF Head(indexes).t # "IndexDefinition"
         THEN [exc |-> "ValueError", v |-> acc]
    ELSE IF IsNone(Head(indexes).name)
         THEN [exc |-> "ValueError", v |-> acc]
    ELSE PutIndexes_collect(Append(acc, IndexDefinition_to_json(Head(indexes))),
                            Tail(indexes))

\* PutIndexesCommand(*indexes_to_add): the instance, or the exception
PutIndexesCommand(indexes_to_add) ==
    LET c == PutIndexes_collect(<<>>, indexes_to_add)
    IN  IF c.exc # "none" THEN Raise(NoCommand, c.exc)
        ELSE Return(RavenCommand("PutIndexes", "PUT", FALSE) @@
                    [indexes_to_add |-> List(c.v)], None)

PutIndexes_create_request(self, server_node) ==
    Return([self EXCEPT !.url = DatabaseUrl(server_node, <<Lit("indexes")>>),
                        !.data = self.indexes_to_add],
           None)

EmptyStr == Str(<<>>, 0)

IndexArguments ==
    { IndexDefinition(KeyA), IndexDefinition(KeyBlank), IndexDefinition(EmptyStr),
      IndexDefinition(None), KeyA }

NewPutIndexes ==
    /\ command = NoCommand
    /\ \E indexes_to_add \in SeqsUpTo(IndexArguments, MaxIndexes) :
        LET r == PutIndexesCommand(indexes_to_add)
        IN  /\ command' = r.self
            /\ last' = Called("__init__", List(indexes_to_add), r)

PutIndexesCreateRequest ==
    /\ command.kind = "PutIndexes"
    /\ \E server_node \in Nodes :
        LET r == PutIndexes_create_request(command, server_node)
        IN  /\ command' = r.self
            /\ last' = Called("create_request", server_node, r)

GetIndexCommand(index_name) ==
    RavenCommand("GetIndex", "GET", TRUE) @@
    [index_name |-> index_name, force_read_from_master |-> FALSE]

GetIndex_create_request(self, server_node) ==
    Return([self EXCEPT
              !.url = DatabaseUrl(server_node,
                          <<Lit("indexes?")>> \o
                          (IF Truthy(self.index_name)
                           THEN <<Piece("name=", quote_key(self.index_name, TRUE))>>
                           ELSE <<>>))],
           None)

IndexNames == {None, EmptyStr, KeyA, KeyBlank}

NewGetIndex ==
    /\ command = NoCommand
    /\ \E index_name \in IndexNames :
        /\ command' = GetIndexCommand(index_name)
        /\ last' = Constructed

GetIndexCreateRequest ==
    /\ command.kind = "GetIndex"
    /\ \E server_node \in Nodes :
        LET r == GetIndex_create_request(command, server_node)
        IN  /\ command' = r.self
            /\ last' = Called("create_request", server_node, r)

DeleteIndexCommand(index_name) ==
    RavenCommand("DeleteIndex", "DELETE", FALSE) @@ [index_name |-> index_name]

DeleteIndex_create_request(self, server_node) ==
    IF ~Truthy(self.index_name) THEN Raise(self, "ValueError")
    ELSE Return([self EXCEPT
                   !.url = DatabaseUrl(server_node,
                               <<Piece("indexes?name=", quote_key(self.index_name, TRUE))>>)],
                None)

NewDeleteIndex ==
    /\ command = NoCommand
    /\ \E index_name \in IndexNames :
        /\ command' = DeleteIndexCommand(index_name)
        /\ last' = Constructed

DeleteIndexCreateRequest ==
    /\ command.kind = "DeleteIndex"
    /\ \E server_node \in Nodes :
        LET r == DeleteIndex_create_request(command, server_node)
        IN  /\ command' = r.self
            /\ last' = Called("create_request", server_node, r)

(***************************************************************************)
(* IndexQuery, PatchRequest and Utils.build_path (consumed)                *)
(***************************************************************************)
IndexQuery(query, default_operator, full) ==
    [t |-> "IndexQuery", query |-> query, page_size |-> 128,
     default_operator |-> default_operator,
     sort_hints |-> IF full THEN List(<<"SortHint-a=String">>) ELSE List(<<>>),
     sort_fields |-> IF full THEN List(<<"a">>) ELSE List(<<>>),
     fetch |-> IF full THEN List(<<"a">>) ELSE List(<<>>),
     wait_for_non_stale_results_timeout |-> IF full THEN PyInt(30) ELSE None]

IsIndexQuery(x) == x.t = "IndexQuery"

PatchRequest(script) == [t |-> "PatchRequest", script |-> script]

IsPatchRequest(x) == x.t = "PatchRequest"

PatchRequest_to_json(p) == Dict([Script |-> p.script])

\* Utils.build_path(index_name, query, options): the path of a by-index
\* operation, a function of its three arguments
build_path(index_name, query, options) ==
    <<Piece("build_path", [index_name |-> index_name, query |-> query,
                           options |-> options])>>

(***************************************************************************)
(* PatchByIndexCommand, DeleteByIndexCommand                               *)
(***************************************************************************)
PatchByIndexCommand(index_name, query_to_update, patch, options) ==
    RavenCommand("PatchByIndex", "PATCH", FALSE) @@
    [index_name |-> index_name, query_to_update |-> query_to_update,
     patch |-> patch, options |-> options]

PatchByIndex_create_request(self, server_node) ==
    IF ~IsIndexQuery(self.query_to_update) THEN Raise(self, "ValueError")
    ELSE IF Truthy(self.patch) /\ ~IsPatchRequest(self.patch)
    THEN Raise(self, "ValueError")
    ELSE LET self1 == IF Truthy(self.patch)
                      THEN [self EXCEPT !.patch = PatchRequest_to_json(self.patch)]
                      ELSE self
         IN  Return([self1 EXCEPT
                       !.url = DatabaseUrl(server_node,
                                   build_path(self1.index_name, self1.query_to_update,
                                              self1.options)),
                       !.data = self1.patch],
                    None)

PlainQuery == IndexQuery(KeyA, "OR", FALSE)

Script == Str(<<"s">>, 0)

NewPatchByIndex ==
    /\ command = NoCommand
    /\ \E query_to_update \in {PlainQuery, KeyA},
          patch \in {None, PatchRequest(Script), Document, Dict(EmptyDict)} :
        /\ command' = PatchByIndexCommand(KeyA, query_to_update, patch, None)
        /\ last' = Constructed

PatchByIndexCreateRequest ==
    /\ command.kind = "PatchByIndex"
    /\ \E server_node \in Nodes :
        LET r == PatchByIndex_create_request(command, server_node)
        IN  /\ command' = r.self
            /\ last' = Called("create_request", server_node, r)

\* response.raise_for_status(): raises HTTPError for an error status (400
\* and above), returns None otherwise
raise_for_status(response) ==
    IF response.status_code >= 400 THEN "HTTPError" ELSE "none"

\* `raise response.raise_for_status()`: the call raises, or its result None
\* is raised, which is a TypeError
raise_raise_for_status(response) ==
    IF raise_for_status(response) # "none" THEN raise_for_status(response)
    ELSE "TypeError"

PatchByIndex_set_response(self, response) ==
    IF IsNone(response) THEN Raise(self, "ErrorResponseException")
    ELSE IF response.status_code # 200 /\ response.status_code # 202
    THEN Raise(self, raise_raise_for_status(response))
    ELSE LET parsed == json(response)
         IN  IF parsed.exc # "none" THEN Raise(self, parsed.exc)
             ELSE Return(self, parsed.v)

PatchByIndexSetResponse ==
    /\ command.kind = "PatchByIndex"
    /\ RequestBuilt
    /\ \E response \in Responses :
        LET r == PatchByIndex_set_response(command, response)
        IN  /\ command' = r.self
            /\ last' = Called("set_response", response, r)

DeleteByIndexCommand(index_name, query, options) ==
    RavenCommand("DeleteByIndex", "DELETE", FALSE) @@
    [index_name |-> index_name, query |-> query, options |-> options]

DeleteByIndex_create_request(self, server_node) ==
    Return([self EXCEPT
              !.url = DatabaseUrl(server_node,
                          build_path(self.index_name, self.query, self.options))],
           None)

NewDeleteByIndex ==
    /\ command = NoCommand
    /\ \E index_name \in {KeyA, KeyBlank},
          query \in {PlainQuery, IndexQuery(KeyBlank, "AND", TRUE)} :
        /\ command' = DeleteByIndexCommand(index_name, query, None)
        /\ last' = Constructed

DeleteByIndexCreateRequest ==
    /\ command.kind = "DeleteByIndex"
    /\ \E server_node \in Nodes :
        LET r == DeleteByIndex_create_request(command, server_node)
        IN  /\ command' = r.self
            /\ last' = Called("create_request", server_node, r)

DeleteByIndex_set_response(self, response) ==
    IF IsNone(response) THEN Raise(self, "ErrorResponseException")
    ELSE IF response.status_code # 200 /\ response.status_code # 202
    THEN LET parsed == json(response)
             raised == IF parsed.exc # "none" THEN parsed.exc
                       ELSE IF "Error" \notin DOMAIN parsed.v.v THEN "KeyError"
                       ELSE "ErrorResponseException"
         IN  IF IsValueError(raised)
             THEN Raise(self, raise_raise_for_status(response))
             ELSE Raise(self, raised)
    ELSE LET parsed == json(response)
         IN  IF parsed.exc # "none" THEN Raise(self, parsed.exc)
             ELSE Return(self, parsed.v)

DeleteByIndexSetResponse ==
    /\ command.kind = "DeleteByIndex"
    /\ RequestBuilt
    /\ \E response \in Responses :
        LET r == DeleteByIndex_set_response(command, response)
        IN  /\ command' = r.self
            /\ last' = Called("set_response", response, r)

(***************************************************************************)
(* PatchCommand                                                            *)
(***************************************************************************)
PatchCommand(key, patch, etag, patch_if_missing, skip_patch_if_etag_mismatch, return_debug_information) ==
    RavenCommand("Patch", "PATCH", FALSE) @@
    [key |-> key, patch |-> patch, etag |-> etag,
     patch_if_missing |-> patch_if_missing,
     _skip_patch_if_etag_mismatch |-> skip_patch_if_etag_mismatch,
     _return_debug_information |-> return_debug_information]

Patch_create_request(self, server_node) ==
    IF IsNone(self.key) THEN Raise(self, "ValueError")
    ELSE IF IsNone(self.patch) THEN Raise(self, "ValueError")
    ELSE IF Truthy(self.patch_if_missing) /\ ~Truthy(self.patch_if_missing.script)
    THEN Raise(self, "ValueError")
    ELSE
    LET path == <<Piece("docs?id=", quote_key(self.key, FALSE))>> \o
                (IF self._skip_patch_if_etag_mismatch
                 THEN <<Lit("&skipPatchIfEtagMismatch=true")>> ELSE <<>>) \o
                (IF self._return_debug_information
                 THEN <<Lit("&debug=true")>> ELSE <<>>)
        f == format_etag_field(self.etag, EmptyDict)
    IN  IF ~IsNone(self.etag) /\ f.exc # "none" THEN Raise(self, f.exc)
        ELSE LET self1 == IF ~IsNone(self.etag)
                          THEN [self EXCEPT !.headers = "If-Match" :> f.v]
                          ELSE self
             IN  Return([self1 EXCEPT
                           !.url = DatabaseUrl(server_node, path),
                           !.data = Dict([Patch |-> PatchRequest_to_json(self1.patch),
                                          PatchIfMissing |->
                                              IF Truthy(self1.patch_if_missing)
                                              THEN PatchRequest_to_json(self1.patch_if_missing)
                                              ELSE None])],
                        None)

NewPatch ==
    /\ command = NoCommand
    /\ \E key \in {None, KeyA, KeyBlank},
          patch \in {None, PatchRequest(Script)},
          etag \in Etags,
          patch_if_missing \in {None, PatchRequest(Script), PatchRequest(EmptyStr),
                                PatchRequest(None)},
          skip \in BOOLEAN, debug \in BOOLEAN :
        /\ command' = PatchCommand(key, patch, etag, patch_if_missing, skip, debug)
        /\ last' = Constructed

PatchCreateRequest ==
    /\ command.kind = "Patch"
    /\ \E server_node \in Nodes :
        LET r == Patch_create_request(command, server_node)
        IN  /\ command' = r.self
            /\ last' = Called("create_request", server_node, r)

(***************************************************************************)
(* QueryCommand                                                            *)
(***************************************************************************)
Conventions(max_length_of_query_using_get_url) ==
    [t |-> "Conventions",
     max_length_of_query_using_get_url |-> max_length_of_query_using_get_url]

\* QueryCommand(index_name, index_query, conventions, ...): the instance, or
\* the exception of the constructor
QueryCommand(index_name, index_query, conventions, includes, metadata_only, index_entries_only) ==
    IF IsNone(index_name) \/ IsNone(index_query) \/ IsNone(conventions)
    THEN Raise(NoCommand, "ValueError")
    ELSE Return(RavenCommand("Query", "GET", TRUE) @@
                [conventions |-> conventions, index_name |-> index_name,
                 index_query |-> index_query, includes |-> includes,
                 metadata_only |-> metadata_only,
                 index_entries_only |-> index_entries_only,
                 force_read_from_master |-> FALSE],
                None)

\* path += "".join(prefix.format(item) for item in items), or nothing when
\* items is empty or None
each_piece(prefix, items) ==
    IF Truthy(items) THEN [i \in 1..Len(items.v) |-> Piece(prefix, items.v[i])]
    ELSE <<>>

Query_path(self) ==
    LET q == self.index_query
    IN  <<Piece("queries/", quote_key(self.index_name, TRUE)),
          Piece("?&pageSize=", PyInt(q.page_size))>> \o
        (IF q.default_operator = "AND"
         THEN <<Piece("&operator=", q.default_operator)>> ELSE <<>>) \o
        (IF Truthy(q.query)
         THEN <<Piece("&query=", quote_key(q.query, FALSE))>> ELSE <<>>) \o
        each_piece("&", q.sort_hints) \o
        each_piece("&sort=", q.sort_fields) \o
        each_piece("&fetch=", q.fetch) \o
        (IF self.metadata_only THEN <<Lit("&metadata-only=true")>> ELSE <<>>) \o
        (IF self.index_entries_only THEN <<Lit("&debug=entries")>> ELSE <<>>) \o
        each_piece("&include=", self.includes) \o
        (IF Truthy(q.wait_for_non_stale_results_timeout)
         THEN <<Piece("&waitForNonStaleResultsTimeout=",
                      q.wait_for_non_stale_results_timeout)>>
         ELSE <<>>)

\* Mutation of Query_uses_post: strict comparison.
Query_uses_post_strict(self) ==
    len(self.index_query.query) < self.conventions.max_length_of_query_using_get_url

\* len(self.index_query.query) <= self.conventions.max_length_of_query_using_get_url
Query_uses_post(self) ==
    len(self.index_query.query) <= self.conventions.max_length_of_query_using_get_url

Query_create_request(self, server_node) ==
    IF ~Truthy(self.index_name) THEN Raise(self, "ValueError")
    ELSE IF IsNone(self.index_query) THEN Raise(self, "ValueError")
    ELSE IF ~IsIndexQuery(self.index_query) THEN Raise(self, "ValueError")
    ELSE LET self1 == IF Query_uses_post(self)
                      THEN [self EXCEPT !.method = "POST"] ELSE self
         IN  Return([self1 EXCEPT !.url = DatabaseUrl(server_node, Query_path(self))],
                    None)

QueryTexts == {Str(<<>>, n) : n \in 0..MaxQueryLen} \cup {KeyBlank}

Thresholds == {0, 1, 2}

IndexQueries ==
    { IndexQuery(text, op, full) :
        text \in QueryTexts, op \in {"OR", "AND"}, full \in BOOLEAN }

NewQuery ==
    /\ command = NoCommand
    /\ \E index_name \in {None, EmptyStr, KeyA},
          index_query \in {None, KeyA} \cup IndexQueries,
          conventions \in {None} \cup {Conventions(n) : n \in Thresholds},
          includes \in {None, List(<<KeyA>>)},
          flags \in {<<FALSE, FALSE>>, <<TRUE, FALSE>>, <<FALSE, TRUE>>} :
        LET r == QueryCommand(index_name, index_query, conventions, includes,
                              flags[1], flags[2])
        IN  /\ command' = r.self
            /\ last' = Called("__init__", None, r)

QueryCreateRequest ==
    /\ command.kind = "Query"
    /\ \E server_node \in Nodes :
        LET r == Query_create_request(command, server_node)
        IN  /\ command' = r.self
            /\ last' = Called("create_request", server_node, r)

(***************************************************************************)
(* GetStatisticsCommand, GetTopologyCommand, GetOperationStateCommand      *)
(***************************************************************************)
GetStatisticsCommand == RavenCommand("GetStatistics", "GET", FALSE)

GetStatistics_create_request(self, server_node) ==
    Return([self EXCEPT !.url = DatabaseUrl(server_node, <<Lit("stats")>>)], None)

NewGetStatistics ==
    /\ command = NoCommand
    /\ command' = GetStatisticsCommand
    /\ last' = Constructed

GetStatisticsCreateRequest ==
    /\ command.kind = "GetStatistics"
    /\ \E server_node \in Nodes :
        LET r == GetStatistics_create_request(command, server_node)
        IN  /\ command' = r.self
            /\ last' = Called("create_request", server_node, r)

GetTopologyCommand ==
    [RavenCommand("GetTopology", "GET", TRUE) EXCEPT !.avoid_failover = TRUE]

GetTopology_create_request(self, server_node) ==
    Return([self EXCEPT
              !.url = DatabaseUrl(server_node,
                          <<Piece("topology?url=", server_node.url)>>)],
           None)

NewGetTopology ==
    /\ command = NoCommand
    /\ command' = GetTopologyCommand
    /\ last' = Constructed

GetTopologyCreateRequest ==
    /\ command.kind = "GetTopology"
    /\ \E server_node \in Nodes :
        LET r == GetTopology_create_request(command, server_node)
        IN  /\ command' = r.self
            /\ last' = Called("create_request", server_node, r)

GetTopology_set_response(self, response) ==
    IF IsNone(response) THEN Raise(self, "AttributeError")
    ELSE IF response.status_code = 200
    THEN LET parsed == json(response)
         IN  IF parsed.exc # "none" THEN Raise(self, parsed.exc)
             ELSE Return(self, parsed.v)
    ELSE IF response.status_code = 400
    THEN \* log.debug(response.json()["Error"]): `log.debug` is looked up
         \* before its argument is evaluated
         IF log_call # "none" THEN Raise(self, log_call)
         ELSE LET parsed == json(response)
              IN  IF parsed.exc # "none" THEN Raise(self, parsed.exc)
                  ELSE IF "Error" \notin DOMAIN parsed.v.v
                  THEN Raise(self, "KeyError")
                  ELSE Return(self, None)
    ELSE Return(self, None)

GetTopologySetResponse ==
    /\ command.kind = "GetTopology"
    /\ RequestBuilt
    /\ \E response \in Responses :
        LET r == GetTopology_set_response(command, response)
        IN  /\ command' = r.self
            /\ last' = Called("set_response", response, r)

GetOperationStateCommand(id) ==
    RavenCommand("GetOperationState", "GET", FALSE) @@ [id |-> id]

GetOperationState_create_request(self, server_node) ==
    Return([self EXCEPT
              !.url = DatabaseUrl(server_node,
                          <<Piece("operations/state?id=", self.id)>>)],
           None)

NewGetOperationState ==
    /\ command = NoCommand
    /\ \E id \in {PyInt(1), PyInt(2)} :
        /\ command' = GetOperationStateCommand(id)
        /\ last' = Constructed

GetOperationStateCreateRequest ==
    /\ command.kind = "GetOperationState"
    /\ \E server_node \in Nodes :
        LET r == GetOperationState_create_request(command, server_node)
        IN  /\ command' = r.self
            /\ last' = Called("create_request", server_node, r)

(***************************************************************************)
(* CreateDatabaseCommand, DeleteDatabaseCommand                            *)
(***************************************************************************)
DatabaseDocument(database_id, settings) ==
    [t |-> "DatabaseDocument", database_id |-> database_id, settings |-> settings]

DatabaseDocument_to_json(d) ==
    Dict([DatabaseId |-> d.database_id, Settings |-> d.settings])

\* text.replace(old, ""), where `old` is one token of the text
replace(text, old) ==
    Str(SelectSeq(text.s, LAMBDA c : c # old), text.pad)

\* Utils.name_validation(name): raises when the name is empty or holds a
\* character a database name may not hold
name_validation(name) ==
    IF ~Truthy(name) \/ \E i \in 1..Len(name.s) : name.s[i] \notin {"a", "x"}
    THEN "InvalidOperationException" ELSE "none"

CreateDatabaseCommand(database_document) ==
    RavenCommand("CreateDatabase", "PUT", FALSE) @@
    [database_document |-> database_document]

CreateDatabase_create_request(self, server_node) ==
    IF "Raven/DataDir" \notin DOMAIN self.database_document.settings.v
    THEN Raise(self, "InvalidOperationException")
    ELSE LET db_name == replace(self.database_document.database_id,
                                "Raven/Databases/")
         IN  IF name_validation(db_name) # "none"
             THEN Raise(self, name_validation(db_name))
             ELSE Return([self EXCEPT
                            !.url = AdminUrl(server_node,
                                        <<Piece("databases?name=",
                                                quote_key(db_name, FALSE))>>),
                            !.data = DatabaseDocument_to_json(self.database_document)],
                         None)

DatabaseIds ==
    { Str(<<"Raven/Databases/", "a">>, 0), Str(<<"Rave/Databases/", "a">>, 0),
      KeyA, KeyBlank }

NewCreateDatabase ==
    /\ command = NoCommand
    /\ \E database_id \in DatabaseIds,
          settings \in {Dict("Raven/DataDir" :> "~/a"), Dict(EmptyDict)} :
        /\ command' = CreateDatabaseCommand(DatabaseDocument(database_id, settings))
        /\ last' = Constructed

CreateDatabaseCreateRequest ==
    /\ command.kind = "CreateDatabase"
    /\ \E server_node \in Nodes :
        LET r == CreateDatabase_create_request(command, server_node)
        IN  /\ command' = r.self
            /\ last' = Called("create_request", server_node, r)

DeleteDatabaseCommand(name, hard_delete) ==
    RavenCommand("DeleteDatabase", "DELETE", FALSE) @@
    [name |-> name, hard_delete |-> hard_delete]

DeleteDatabase_create_request(self, server_node) ==
    LET db_name == replace(self.name, "Rave/Databases/")
    IN  Return([self EXCEPT
                  !.url = AdminUrl(server_node,
                              <<Piece("databases?name=", quote_key(db_name, FALSE))>> \o
                              (IF self.hard_delete
                               THEN <<Lit("&hard-delete=true")>> ELSE <<>>))],
               None)

NewDeleteDatabase ==
    /\ command = NoCommand
    /\ \E name \in DatabaseIds, hard_delete \in BOOLEAN :
        /\ command' = DeleteDatabaseCommand(name, hard_delete)
        /\ last' = Constructed

DeleteDatabaseCreateRequest ==
    /\ command.kind = "DeleteDatabase"
    /\ \E server_node \in Nodes :
        LET r == DeleteDatabase_create_request(command, server_node)
        IN  /\ command' = r.self
            /\ last' = Called("create_request", server_node, r)

Init ==
    /\ command = NoCommand
    /\ last = [op |-> "none", arg |-> None, exc |-> "none", ret |-> None]

Next ==
    \/ RecordFailedNode
    \/ NewGetDocument
    \/ GetDocumentCreateRequest
    \/ NewDeleteDocument
    \/ DeleteDocumentCreateRequest
    \/ DeleteDocumentSetResponse
    \/ NewPutDocument
    \/ PutDocumentCreateRequest
    \/ PutDocumentSetResponse
    \/ NewBatch
    \/ BatchCreateRequest
    \/ BatchSetResponse
    \/ NewPutIndexes
    \/ PutIndexesCreateRequest
    \/ NewGetIndex
    \/ GetIndexCreateRequest
    \/ NewDeleteIndex
    \/ DeleteIndexCreateRequest
    \/ NewPatchByIndex
    \/ PatchByIndexCreateRequest
    \/ PatchByIndexSetResponse
    \/ NewDeleteByIndex
    \/ DeleteByIndexCreateRequest
    \/ DeleteByIndexSetResponse
    \/ NewPatch
    \/ PatchCreateRequest
    \/ NewQuery
    \/ QueryCreateRequest
    \/ NewGetStatistics
    \/ GetStatisticsCreateRequest
    \/ NewGetTopology
    \/ GetTopologyCreateRequest
    \/ GetTopologySetResponse
    \/ NewGetOperationState
    \/ GetOperationStateCreateRequest
    \/ NewCreateDatabase
    \/ CreateDatabaseCreateRequest
    \/ NewDeleteDatabase
    \/ DeleteDatabaseCreateRequest

Spec == Init /\ [][Next]_vars

(***************************************************************************)
(* Properties                                                              *)
(***************************************************************************)
\* The positions of a list at which a value occurs for the first time
FirstPositions(q) == {i \in 1..Len(q) : \A j \in 1..(i - 1) : q[j] # q[i]}

\* The distinct values of a list, each once, in order of first occurrence
FirstSeen(q) ==
    LET P == FirstPositions(q)
    IN  [n \in 1..Cardinality(P) |->
            q[CHOOSE i \in P : Cardinality({j \in P : j <= i}) = n]]

RECURSIVE TotalLength(_)
TotalLength(S) ==
    IF S = {} THEN 0
    ELSE LET k == CHOOSE k \in S : TRUE
         IN  Len(k.s) + k.pad + TotalLength(S \ {k})

\* The values of the id query parameters of a url, in order
IdParameters(url) ==
    LET ids == SelectSeq(url.path, LAMBDA piece : piece.p = "&id=")
    IN  [i \in 1..Len(ids) |-> ids[i].v]

GetDocumentOfList ==
    /\ command.kind = "GetDocument"
    /\ last.op = "create_request"
    /\ last.exc = "none"
    /\ IsList(command.key_or_keys)

DistinctKeys == {command.key_or_keys.v[i] : i \in 1..Len(command.key_or_keys.v)}

\* C1: GetDocumentCommand.create_request with a list of keys: when the summed
\* length of the distinct keys exceeds 1024 the command is a POST whose data
\* is the list of keys and whose url has no id parameter; when the sum is at
\* most 1024 (1024 included) it stays a GET with data None and every key is
\* an id parameter of the url.
C1_PostAbove1024 ==
    GetDocumentOfList =>
        IF TotalLength(DistinctKeys) > 1024
        THEN /\ command.method = "POST"
             /\ command.data = List(FirstSeen(command.key_or_keys.v))
             /\ IdParameters(command.url) = <<>>
        ELSE /\ command.method = "GET"
             /\ command.data = None
             /\ \A k \in DistinctKeys :
                    \E i \in 1..Len(IdParameters(command.url)) :
                        IdParameters(command.url)[i] = quote_key(k, FALSE)

C1_Witness ==
    /\ GetDocumentOfList
    /\ TotalLength(DistinctKeys) = 1025
    /\ command.method = "POST"

\* C2: GetDocumentCommand.create_request with a list of keys sends each
\* distinct key exactly once, in the order of its first occurrence: as the id
\* parameters of the url on the GET path, as the data on the POST path.
C2_FirstSeenOrder ==
    GetDocumentOfList =>
        LET ids == FirstSeen(command.key_or_keys.v)
        IN  IF command.method = "POST"
            THEN command.data = List(ids)
            ELSE IdParameters(command.url) =
                     [i \in 1..Len(ids) |-> quote_key(ids[i], FALSE)]

C2_Witness ==
    /\ GetDocumentOfList
    /\ command.method = "GET"
    /\ command.key_or_keys.v = <<KeyLong, KeyBlank, KeyLong>>
    /\ IdParameters(command.url) = <<KeyLong, Str(<<"%", "2", "0">>, 0)>>

\* C3: PutDocumentCommand.create_request with a string key and a mapping
\* document completes; with an etag the headers carry it under If-Match,
\* without an etag the headers have no If-Match entry.
C3_IfMatchWithEtag ==
    ( /\ command.kind = "PutDocument"
      /\ last.op = "create_request"
      /\ IsStr(command.key)
      /\ IsDict(command.document) ) =>
        /\ last.exc = "none"
        /\ IF IsNone(command.etag)
           THEN "If-Match" \notin DOMAIN command.headers
           ELSE /\ "If-Match" \in DOMAIN command.headers
                /\ command.headers["If-Match"] = QuotedEtag(command.etag)

PutDocumentAnswered ==
    /\ command.kind = "PutDocument"
    /\ last.op = "set_response"
    /\ ~IsNone(last.arg)

\* C4: PutDocumentCommand.set_response: a body with "Error" and "ActualEtag"
\* raises FetchConcurrencyException; a body with "Error" and no "ActualEtag"
\* raises ErrorResponseException; a body without "Error" is returned
\* unchanged; a body that does not parse raises ErrorResponseException.
C4_PutResponseClassified ==
    PutDocumentAnswered =>
        LET body == last.arg.body
        IN  IF body.t # "dict"
            THEN last.exc = "ErrorResponseException"
            ELSE IF "Error" \in DOMAIN body.v
            THEN IF "ActualEtag" \in DOMAIN body.v
                 THEN last.exc = "FetchConcurrencyException"
                 ELSE last.exc = "ErrorResponseException"
            ELSE last.exc = "none" /\ last.ret = body

C4_Witness ==
    /\ PutDocumentAnswered
    /\ last.arg.body.t = "dict"
    /\ {"Error", "ActualEtag"} \subseteq DOMAIN last.arg.body.v
    /\ last.exc = "FetchConcurrencyException"

\* C5: DeleteDocumentCommand.set_response(None) returns None without raising;
\* on a status other than 204 with an "Error" body it raises
\* ErrorResponseException; on status 204 it returns without raising.
C5_DeleteResponse ==
    (command.kind = "DeleteDocument" /\ last.op = "set_response") =>
        IF IsNone(last.arg)
        THEN last.exc = "none" /\ last.ret = None
        ELSE IF last.arg.status_code = 204
        THEN last.exc = "none"
        ELSE ( /\ last.arg.body.t = "dict"
               /\ "Error" \in DOMAIN last.arg.body.v ) =>
                 last.exc = "ErrorResponseException"

QueryRequested ==
    /\ command.kind = "Query"
    /\ last.op = "create_request"
    /\ last.exc = "none"

\* C6: QueryCommand.create_request: a query text no longer than
\* conventions.max_length_of_query_using_get_url makes the method POST, a
\* longer one leaves it GET; is_read_request is true in both cases.
C6_QueryMethod ==
    /\ command.kind = "Query" => command.is_read_request
    /\ QueryRequested =>
        LET text == command.index_query.query
            limit == command.conventions.max_length_of_query_using_get_url
        IN  command.method =
                IF Len(text.s) + text.pad > limit THEN "GET" ELSE "POST"

C6_Witness ==
    /\ QueryRequested
    /\ command.index_query.query = Str(<<>>, 2)
    /\ command.conventions.max_length_of_query_using_get_url = 2
    /\ command.method = "POST"
    /\ command.is_read_request

BatchRequested == command.kind = "Batch" /\ last.op = "create_request"

\* C7: BatchCommand.create_request: when a sub-command has no command
\* representation it raises ValueError and url and data stay unset; otherwise
\* data is the list of the sub-commands' to_json() results, as long as
\* commands_array and in its order.
C7_BatchBody ==
    BatchRequested =>
        LET cs == command.commands_array
        IN  IF \E i \in 1..Len(cs) : cs[i].t # "commanddata"
            THEN /\ last.exc = "ValueError"
                 /\ command.url = None
                 /\ command.data = None
            ELSE /\ last.exc = "none"
                 /\ command.data.t = "list"
                 /\ Len(command.data.v) = Len(cs)
                 /\ \A i \in 1..Len(cs) :
                        command.data.v[i] = Dict([Key |-> cs[i].key,
                                                  Method |-> cs[i].method])

C7_Witness ==
    /\ BatchRequested
    /\ last.exc = "none"
    /\ command.commands_array =
           <<CommandData(KeyA, "PUT"), CommandData(KeyA, "DELETE")>>
    /\ command.data.v[1].v.Method = "PUT"
    /\ command.data.v[2].v.Method = "DELETE"

\* C8: the PutIndexesCommand constructor raises when a supplied index
\* definition has an empty or missing name, so no instance holds a definition
\* with an empty or missing name; otherwise indexes_to_add holds the
\* serialized definitions in argument order.
C8_NoEmptyIndexName ==
    /\ command.kind = "PutIndexes" =>
           \A i \in 1..Len(command.indexes_to_add.v) :
               LET name == command.indexes_to_add.v[i].v.Name
               IN  IsStr(name) /\ Len(name.s) + name.pad > 0
    /\ (last.op = "__init__" /\ IsList(last.arg)) =>
           IF \E i \in 1..Len(last.arg.v) :
                  /\ last.arg.v[i].t = "IndexDefinition"
                  /\ last.arg.v[i].name \in {None, EmptyStr}
           THEN last.exc # "none"
           ELSE (\A i \in 1..Len(last.arg.v) : last.arg.v[i].t = "IndexDefinition") =>
                    /\ last.exc = "none"
                    /\ command.indexes_to_add =
                           List([i \in 1..Len(last.arg.v) |->
                                    Dict([Name |-> last.arg.v[i].name])])

\* C9: whenever create_request raises, url and data hold the values they had
\* before the call.
C9_NoPartialRequest ==
    [][(last'.op = "create_request" /\ last'.exc # "none") =>
           (command'.url = command.url /\ command'.data = command.data)]_vars

C9_Witness ==
    /\ last.op = "create_request"
    /\ last.exc = "ValueError"
    /\ command.url # None
    /\ command.data # None

\* C10: BatchCommand.set_response: a parsed body with "Results" (and no
\* "Error") returns exactly that list; a parsed body without "Results", a
\* body with "Error" and a body that does not parse raise
\* InvalidOperationException, and no other exception type escapes.
C10_BatchResponse ==
    ( /\ command.kind = "Batch"
      /\ last.op = "set_response"
      /\ ~IsNone(last.arg) ) =>
        LET body == last.arg.body
        IN  IF /\ body.t = "dict"
               /\ "Error" \notin DOMAIN body.v
               /\ "Results" \in DOMAIN body.v
            THEN last.exc = "none" /\ last.ret = List(body.v["Results"])
            ELSE last.exc = "InvalidOperationException"

\* C11: GetTopologyCommand has avoid_failover true from construction on,
\* through create_request and set_response; set_response returns the parsed
\* body of a status-200 response, and on a status-400 response it logs the
\* error and returns None without raising.
C11_TopologyResponse ==
    command.kind = "GetTopology" =>
        /\ command.avoid_failover
        /\ (last.op = "set_response" /\ ~IsNone(last.arg)) =>
               /\ (last.arg.status_code = 200 /\ last.arg.body.t = "dict") =>
                      (last.exc = "none" /\ last.ret = last.arg.body)
               /\ ( /\ last.arg.status_code = 400
                    /\ last.arg.body.t = "dict"
                    /\ "Error" \in DOMAIN last.arg.body.v ) =>
                      (last.exc = "none" /\ last.ret = None)

\* C12: PatchByIndexCommand and DeleteByIndexCommand: set_response on a
\* response whose status is neither 200 nor 202 raises ErrorResponseException,
\* whatever the status and the body; with status 200 or 202 it returns the
\* parsed body.
C12_ByIndexResponse ==
    ( /\ command.kind \in {"PatchByIndex", "DeleteByIndex"}
      /\ last.op = "set_response"
      /\ ~IsNone(last.arg) ) =>
        IF last.arg.status_code \notin {200, 202}
        THEN last.exc = "ErrorResponseException"
        ELSE last.arg.body.t = "dict" =>
                 (last.exc = "none" /\ last.ret = last.arg.body)

\* The path of a url without the parts that repeat the node's address
PathOfRequest(url) ==
    [i \in 1..Len(url.path) |->
        IF url.path[i].p = "topology?url=" THEN Lit(url.path[i].p)
        ELSE url.path[i]]

\* A step that calls create_request again, against another node, after the
\* node of the request built before was recorded as failed
RetryStep ==
    /\ command.kind # "none"
    /\ last.op = "create_request"
    /\ last.exc = "none"
    /\ is_failed_with_node(command, last.arg)
    /\ last'.op = "create_request"
    /\ ~is_failed_with_node(command, last'.arg)
    /\ command'.failed_nodes = command.failed_nodes

\* C13: for every command variant, once create_request has succeeded, a
\* second create_request on the same instance succeeds too and yields the
\* same method, headers and data, and a url that differs only by the node's
\* base url and database name.
C13_RetrySameRequest ==
    [][RetryStep =>
           /\ last'.exc = "none"
           /\ command'.method = command.method
           /\ command'.headers = command.headers
           /\ command'.data = command.data
           /\ command'.url.area = command.url.area
           /\ PathOfRequest(command'.url) = PathOfRequest(command.url)]_vars

\* The same statement for every variant but PatchByIndexCommand, the one
\* whose create_request changes a field it reads (self.patch).
C13_ExceptPatchByIndex ==
    [][(RetryStep /\ command.kind # "PatchByIndex") =>
           /\ last'.exc = "none"
           /\ command'.method = command.method
           /\ command'.headers = command.headers
           /\ command'.data = command.data
           /\ command'.url.area = command.url.area
           /\ PathOfRequest(command'.url) = PathOfRequest(command.url)]_vars

====
